---- MODULE Spec2Model ----
(***************************************************************************)
(* Model of geoparams.py: the WGS-84 module constants and the three        *)
(* functions geo_param, earth_radius and lla2xyz.                          *)
(*                                                                         *)
(* Python floats are IEEE-754 binary64 numbers.  They are modelled bit for *)
(* bit: a float is a sign, a 53-bit significand and a binary exponent, and *)
(* + - * / sqrt round to nearest, ties to even, overflow to infinity and   *)
(* underflow gradually.  Significands do not fit TLC's 32-bit integers, so *)
(* they are natural numbers held as little-endian sequences of 15-bit      *)
(* limbs.                                                                  *)
(***************************************************************************)
EXTENDS Integers, Sequences, FiniteSets, TLC

(***************************************************************************)
(* Natural numbers of any size: little-endian limbs in base 2^15, no high  *)
(* zero limb; zero is the empty sequence.                                  *)
(***************************************************************************)
\* An intermediate result that is used more than once is passed on as the
\* argument of a helper operator.  TLC evaluates an argument at its first
\* use, however deep in the operator's body that is, and its evaluation stack
\* is small; << a, b, e >>[3] is e with the arguments a and b evaluated
\* first, in that order.
Pow2(n) == <<1, 2, 4, 8, 16, 32, 64, 128, 256, 512, 1024, 2048, 4096, 8192,
             16384, 32768>>[n + 1]

Base == Pow2(15)

Max(i, j) == IF i >= j THEN i ELSE j
Min(i, j) == IF i <= j THEN i ELSE j

Limb(a, i) == IF i >= 1 /\ i <= Len(a) THEN a[i] ELSE 0

\* a without its high zero limbs
BNorm(a) ==
    << a,
       LET nz == {i \in 1..Len(a) : a[i] # 0}
       IN  IF nz = {} THEN <<>>
           ELSE SubSeq(a, 1, CHOOSE i \in nz : \A j \in nz : j <= i)
    >>[2]

BFromInt(n) ==
    IF n = 0 THEN <<>>
    ELSE IF n < Base THEN <<n>>
    ELSE IF n < Base * Base THEN <<n % Base, n \div Base>>
    ELSE <<n % Base, (n \div Base) % Base, n \div (Base * Base)>>

BCmp(a, b) ==
    << a, b,
       IF Len(a) < Len(b) THEN -1
       ELSE IF Len(a) > Len(b) THEN 1
       ELSE LET diff == {i \in 1..Len(a) : a[i] # b[i]}
            IN  IF diff = {} THEN 0
                ELSE IF a[CHOOSE i \in diff : \A j \in diff : j <= i]
                        < b[CHOOSE i \in diff : \A j \in diff : j <= i]
                THEN -1 ELSE 1
    >>[3]

\* the carry into limb i of the limb-wise sums s
Carry(s, i) ==
    IF \E j \in 1..(i - 1) :
          /\ s[j] >= Base
          /\ \A t \in (j + 1)..(i - 1) : s[t] = Base - 1
    THEN 1 ELSE 0

\* the limbs of the number whose limb-wise sums, not yet carried, are s
BCarry(s) ==
    << s,
       BNorm([i \in 1..(Len(s) + 1) |->
                 IF i <= Len(s) THEN (s[i] + Carry(s, i)) % Base ELSE Carry(s, i)])
    >>[2]

\* a + b; the limbs of a and b may be unnormalised, the result is normalised
BAdd(a, b) ==
    << a, b,
       BCarry(SubSeq([i \in 1..Max(Len(a), Len(b)) |-> Limb(a, i) + Limb(b, i)],
                     1, Max(Len(a), Len(b))))
    >>[3]

\* the borrow out of the limbs below i of the limb-wise differences d
Borrow(d, i) ==
    IF \E j \in 1..(i - 1) :
          /\ d[j] < 0
          /\ \A t \in (j + 1)..(i - 1) : d[t] = 0
    THEN 1 ELSE 0

\* the limbs of the number whose limb-wise differences, not yet borrowed, are d
BBorrow(d) ==
    << d,
       BNorm([i \in 1..Len(d) |-> (d[i] - Borrow(d, i) + Base) % Base])
    >>[2]

\* a - b for a >= b
BSub(a, b) ==
    << a, b,
       BBorrow(SubSeq([i \in 1..Len(a) |-> a[i] - Limb(b, i)], 1, Len(a)))
    >>[3]

\* a * d for one limb d
BMulLimb(a, d) ==
    << a,
       BAdd([i \in 1..Len(a) |-> (a[i] * d) % Base],
            [i \in 1..(Len(a) + 1) |-> IF i = 1 THEN 0 ELSE (a[i - 1] * d) \div Base])
    >>[2]

\* a * (limbs j.. of b)
RECURSIVE BMulFrom(_, _, _)
BMulFrom(a, b, j) ==
    IF j > Len(b) THEN <<>>
    ELSE BAdd(BMulLimb(a, b[j]), <<0>> \o BMulFrom(a, b, j + 1))

BMul(a, b) == IF a = <<>> \/ b = <<>> THEN <<>> ELSE BMulFrom(a, b, 1)

\* a * 2^n
BShl(a, n) ==
    << a,
       IF a = <<>> THEN <<>>
       ELSE [i \in 1..(n \div 15) |-> 0] \o
            BNorm([i \in 1..(Len(a) + 1) |->
                      ((Limb(a, i) * Pow2(n % 15)) % Base)
                      + ((Limb(a, i - 1) * Pow2(n % 15)) \div Base)])
    >>[2]

\* floor(a / 2^n)
BShr(a, n) ==
    << a,
       BNorm([i \in 1..Max(Len(a) - (n \div 15), 0) |->
                 (Limb(a, (n \div 15) + i) \div Pow2(n % 15))
                 + ((Limb(a, (n \div 15) + i + 1) % Pow2(n % 15))
                    * (Base \div Pow2(n % 15)))])
    >>[2]

\* the number of bits of a limb d > 0
BitLenLimb(d) == CHOOSE n \in 1..15 : Pow2(n - 1) <= d /\ d < Pow2(n)

BBitLen(a) == IF a = <<>> THEN 0 ELSE 15 * (Len(a) - 1) + BitLenLimb(a[Len(a)])

BIsOdd(a) == a # <<>> /\ a[1] % 2 = 1

\* The quotient limb floor(r / b) for r < Base * b and b normalised (its top
\* limb is at least Base / 2), given the estimate est from the top limbs,
\* which is at most two too large (Knuth, TAOCP 4.3.1, Theorem B).
BDigitFrom(r, b, est) ==
    << r, est,
       IF BCmp(BMulLimb(b, est), r) <= 0 THEN est
       ELSE IF BCmp(BMulLimb(b, est - 1), r) <= 0 THEN est - 1
       ELSE est - 2
    >>[3]

BDigit(r, b) ==
    BDigitFrom(r, b, Min(Base - 1,
                         (Limb(r, Len(b) + 1) * Base + Limb(r, Len(b))) \div b[Len(b)]))

\* one step of long division: the quotient limb d of the running remainder r2
\* goes below the quotient limbs qhi found so far
BDivOut(b, qhi, r2, d) ==
    << r2, d,
       << BNorm(<<d>> \o qhi), BSub(r2, BMulLimb(b, d)) >>
    >>[3]

BDivRem(b, qhi, r2) ==
    << r2,
       BDivOut(b, qhi, r2, BDigit(r2, b))
    >>[2]

\* the limb ai is brought down to the remainder of the limbs above it
BDivLimb(b, ai, hi) ==
    << hi,
       BDivRem(b, hi[1], BNorm(<<ai>> \o hi[2]))
    >>[2]

\* long division, limb by limb: <<quotient, remainder>> of (limbs i.. of a) / b;
\* fewer than Len(b) limbs are their own remainder
RECURSIVE BDivModFrom(_, _, _)
BDivModFrom(a, b, i) ==
    IF i > Len(a) - Len(b) + 1
    THEN << <<>>, BNorm(SubSeq(a, i, Len(a))) >>
    ELSE BDivLimb(b, a[i], BDivModFrom(a, b, i + 1))

BDivUnshift(sh, qr) ==
    << qr,
       <<qr[1], BShr(qr[2], sh)>>
    >>[2]

BDivNorm(a, b, sh) == BDivUnshift(sh, BDivModFrom(BShl(a, sh), BShl(b, sh), 1))

\* <<floor(a / b), a mod b>> for b > 0: both are shifted left to normalise b
BDivMod(a, b) == BDivNorm(a, b, 15 - BitLenLimb(b[Len(b)]))

\* One step of Newton's iteration for floor(sqrt(a)) from x >= floor(sqrt(a)):
\* the next iterate y, or x itself once the iterates stop decreasing (x is
\* then floor(sqrt(a))).
BSqrtPick(x, y) ==
    << y,
       IF BCmp(y, x) >= 0 THEN x ELSE y
    >>[2]

BSqrtStep(a, x) == BSqrtPick(x, BShr(BAdd(x, BDivMod(a, x)[1]), 1))

\* iterate until the step changes nothing
RECURSIVE BSqrtFrom(_, _), BSqrtNext(_, _, _)
BSqrtFrom(a, x) == BSqrtNext(a, x, BSqrtStep(a, x))
BSqrtNext(a, x, y) ==
    << y,
       IF y = x THEN x ELSE BSqrtFrom(a, y)
    >>[2]

\* floor(sqrt(a)), from the power of two above it
BSqrt(a) ==
    IF a = <<>> THEN <<>>
    ELSE BSqrtFrom(a, BShl(<<1>>, (BBitLen(a) + 1) \div 2))

(***************************************************************************)
(* IEEE-754 binary64.  A finite float is (-1)^s * m * 2^e with m < 2^53;   *)
(* m has exactly 53 bits and -1074 <= e <= 971 when normal, e = -1074 when *)
(* subnormal, and m = <<>>, e = 0 for a zero.  NaN is one value (its sign  *)
(* and payload are not observable from Python arithmetic).  A raised       *)
(* exception is carried as a value of class "ValueError" or                *)
(* "ZeroDivisionError" that every later operation passes on, so the first  *)
(* raising sub-expression decides the outcome of a statement.              *)
(***************************************************************************)
Fin(s, m, e) == [c |-> "fin", s |-> s, m |-> m, e |-> e]
Zero(s) == Fin(s, <<>>, 0)
Inf(s) == [c |-> "inf", s |-> s, m |-> <<>>, e |-> 0]
PInf == Inf(0)
NInf == Inf(1)
NaN == [c |-> "nan", s |-> 0, m |-> <<>>, e |-> 0]
Exc(kind) == [c |-> kind, s |-> 0, m |-> <<>>, e |-> 0]
ValueError == Exc("ValueError")
ZeroDivisionError == Exc("ZeroDivisionError")

IsExc(a) == a.c \in {"ValueError", "ZeroDivisionError"}
IsNaN(a) == a.c = "nan"
IsInf(a) == a.c = "inf"
IsFin(a) == a.c = "fin"
IsZero(a) == a.c = "fin" /\ a.m = <<>>

Xor(s, t) == (s + t) % 2

\* The float nearest to (-1)^s * (M + t) * 2^E, ties to even, where t = 0 when
\* sticky is FALSE and 0 < t < 1 when it is TRUE.
RoundPack(s, q1, e1) ==
    << q1,
       IF q1 = <<>> THEN Zero(s)
       ELSE IF BBitLen(q1) > 53
       THEN (IF e1 + 1 > 971 THEN Inf(s) ELSE Fin(s, BShr(q1, 1), e1 + 1))
       ELSE (IF e1 > 971 THEN Inf(s) ELSE Fin(s, q1, e1))
    >>[2]

\* cmp compares the bits dropped from q with half a unit in the last place
RoundUp(s, sticky, e1, q, cmp) ==
    << q, cmp,
       RoundPack(s,
                 IF cmp > 0 \/ (cmp = 0 /\ (sticky \/ BIsOdd(q)))
                 THEN BAdd(q, <<1>>) ELSE q,
                 e1)
    >>[3]

RoundQuot(s, M, shift, sticky, e1, q) ==
    << q,
       RoundUp(s, sticky, e1, q,
               BCmp(BSub(M, BShl(q, shift)), BShl(<<1>>, shift - 1)))
    >>[2]

\* e1 is the exponent of the result's last place
RoundAt(s, M, E, sticky, e1) ==
    << e1,
       IF e1 <= E
       THEN (IF e1 > 971 THEN Inf(s) ELSE Fin(s, BShl(M, E - e1), e1))
       ELSE RoundQuot(s, M, e1 - E, sticky, e1, BShr(M, e1 - E))
    >>[2]

Round(s, M, E, sticky) ==
    << M,
       IF M = <<>> THEN Zero(s)
       ELSE RoundAt(s, M, E, sticky, Max(E + BBitLen(M) - 53, -1074))
    >>[2]

\* float(n) for a Python int 0 <= n < 2^31
FromInt(n) == Round(0, BFromInt(n), 0, FALSE)

FNeg(a) ==
    IF IsExc(a) \/ IsNaN(a) THEN a ELSE [a EXCEPT !.s = 1 - a.s]

FAbs(a) ==
    IF IsExc(a) \/ IsNaN(a) THEN a ELSE [a EXCEPT !.s = 0]

\* hi + lo, M being hi's significand at lo's exponent and cmp its comparison
\* with lo's significand
AddSigned(hi, lo, M, cmp) ==
    << M, cmp,
       Round(IF hi.s = lo.s \/ cmp > 0 THEN hi.s ELSE IF cmp < 0 THEN lo.s ELSE 0,
             CASE hi.s = lo.s -> BAdd(M, lo.m)
               [] hi.s # lo.s /\ cmp >= 0 -> BSub(M, lo.m)
               [] OTHER -> BSub(lo.m, M),
             lo.e, FALSE)
    >>[3]

AddAligned(hi, lo, M) ==
    << M,
       AddSigned(hi, lo, M, BCmp(M, lo.m))
    >>[2]

\* hi + lo of two finite non-zero floats with hi.e >= lo.e; a lo more than 64
\* binary places below hi only decides the rounding
AddOrdered(hi, lo) ==
    IF hi.e - lo.e > 64
    THEN AddSigned(hi, [lo EXCEPT !.m = <<1>>, !.e = hi.e - 66], BShl(hi.m, 66), 1)
    ELSE AddAligned(hi, lo, BShl(hi.m, hi.e - lo.e))

\* a + b of two finite non-zero floats
AddFinite(a, b) == IF a.e >= b.e THEN AddOrdered(a, b) ELSE AddOrdered(b, a)

FAdd(a, b) ==
    CASE IsExc(a) -> a
      [] ~IsExc(a) /\ IsExc(b) -> b
      [] ~IsExc(a) /\ ~IsExc(b) ->
         CASE IsNaN(a) \/ IsNaN(b) -> NaN
           [] IsInf(a) /\ ~IsNaN(b) -> (IF IsInf(b) /\ a.s # b.s THEN NaN ELSE a)
           [] IsFin(a) /\ IsInf(b) -> b
           [] IsFin(a) /\ IsFin(b) ->
              CASE IsZero(a) /\ IsZero(b) ->
                       (IF a.s = 1 /\ b.s = 1 THEN Zero(1) ELSE Zero(0))
                [] IsZero(a) /\ ~IsZero(b) -> b
                [] ~IsZero(a) /\ IsZero(b) -> a
                [] OTHER -> AddFinite(a, b)

FSub(a, b) == FAdd(a, FNeg(b))

FMul(a, b) ==
    CASE IsExc(a) -> a
      [] ~IsExc(a) /\ IsExc(b) -> b
      [] ~IsExc(a) /\ ~IsExc(b) ->
         CASE IsNaN(a) \/ IsNaN(b) -> NaN
           [] ~IsNaN(a) /\ ~IsNaN(b) /\ (IsInf(a) \/ IsInf(b)) ->
                  (IF IsZero(a) \/ IsZero(b) THEN NaN ELSE Inf(Xor(a.s, b.s)))
           [] OTHER ->
              Round(Xor(a.s, b.s), BMul(a.m, b.m), a.e + b.e, FALSE)

\* a / b of two finite non-zero floats: a's significand is shifted left by
\* sh so that the integer quotient qr[1] has at least 56 bits
DivQuot(a, b, sh, qr) ==
    << qr,
       Round(Xor(a.s, b.s), qr[1], a.e - b.e - sh, qr[2] # <<>>)
    >>[2]

DivShifted(a, b, sh) == DivQuot(a, b, sh, BDivMod(BShl(a.m, sh), b.m))

\* Python's float /: a zero divisor raises ZeroDivisionError
FDiv(a, b) ==
    CASE IsExc(a) -> a
      [] ~IsExc(a) /\ IsExc(b) -> b
      [] ~IsExc(a) /\ ~IsExc(b) ->
         CASE IsZero(b) -> ZeroDivisionError
           [] ~IsZero(b) /\ (IsNaN(a) \/ IsNaN(b)) -> NaN
           [] IsInf(a) /\ ~IsZero(b) /\ ~IsNaN(b) ->
                  (IF IsInf(b) THEN NaN ELSE Inf(Xor(a.s, b.s)))
           [] IsFin(a) /\ ~IsZero(b) /\ ~IsNaN(b) /\ (IsInf(b) \/ IsZero(a)) ->
                  Zero(Xor(a.s, b.s))
           [] OTHER ->
              DivShifted(a, b, Max(0, 56 + BBitLen(b.m) - BBitLen(a.m)))

\* the square root of a finite positive float: its significand is shifted
\* left by sh, to M with about 110 bits and an even exponent, and r is
\* floor(sqrt(M))
SqrtRound(a, sh, M, r) ==
    << r,
       Round(0, r, (a.e - sh) \div 2, BMul(r, r) # M)
    >>[2]

SqrtRoot(a, sh, M) ==
    << M,
       SqrtRound(a, sh, M, BSqrt(M))
    >>[2]

SqrtShifted(a, sh) == SqrtRoot(a, sh, BShl(a.m, sh))

\* math.sqrt: a negative argument raises ValueError
MathSqrt(a) ==
    CASE IsExc(a) \/ IsNaN(a) -> a
      [] IsZero(a) -> a
      [] a.c \in {"fin", "inf"} /\ ~IsZero(a) /\ a.s = 1 -> ValueError
      [] IsInf(a) /\ a.s = 0 -> a
      [] OTHER ->
         SqrtShifted(a, (110 - BBitLen(a.m))
                        + ((a.e - (110 - BBitLen(a.m))) % 2))

\* d = b - a tells a <= b; it is NaN when a and b are the same infinity
NonNegative(d) == IsNaN(d) \/ (d.c \in {"fin", "inf"} /\ (d.s = 0 \/ IsZero(d)))

\* a <= b as Python compares floats (FALSE when either is NaN)
FLe(a, b) ==
    /\ a.c \in {"fin", "inf"} /\ b.c \in {"fin", "inf"}
    /\ NonNegative(FSub(b, a))

(***************************************************************************)
(* Float literals.  Python reads a decimal literal as the nearest double.  *)
(* Lit(<<d1, ..., dn>>, p) is the double nearest to N * 10^p, where N is   *)
(* the integer whose decimal digits are d1 ... dn in groups of four (each  *)
(* group after the first stands for exactly four digits).                  *)
(***************************************************************************)
\* the integer of the first n groups
RECURSIVE BFromChunks(_, _)
BFromChunks(chunks, n) ==
    IF n = 0 THEN <<>>
    ELSE BAdd(BMulLimb(BFromChunks(chunks, n - 1), 10000), BFromInt(chunks[n]))

RECURSIVE BPow10(_)
BPow10(n) ==
    IF n < 4 THEN << <<1>>, <<10>>, <<100>>, <<1000>> >>[n + 1]
    ELSE BMulLimb(BPow10(n - 4), 10000)

\* N / D for p < 0: N is shifted left by sh so that the integer quotient has
\* at least 56 bits
LitQuot(sh, qr) ==
    << qr,
       Round(0, qr[1], -sh, qr[2] # <<>>)
    >>[2]

LitShifted(N, D, sh) ==
    << sh,
       LitQuot(sh, BDivMod(BShl(N, sh), D))
    >>[2]

LitDiv(N, D) ==
    << N, D,
       LitShifted(N, D, Max(0, 56 + BBitLen(D) - BBitLen(N)))
    >>[3]

LitFrom(N, p) ==
    << N,
       IF N = <<>> THEN Zero(0)
       ELSE IF p >= 0 THEN Round(0, BMul(N, BPow10(p)), 0, FALSE)
       ELSE LitDiv(N, BPow10(-p))
    >>[2]

Lit(chunks, p) == LitFrom(BFromChunks(chunks, Len(chunks)), p)

(***************************************************************************)
(* math.sin and math.cos.  A NaN argument gives NaN and an infinite one    *)
(* raises ValueError("math domain error").  On finite arguments the C      *)
(* library's results are tabulated, as doubles, for the angles the callers *)
(* pass in.                                                                *)
(***************************************************************************)
TrigTable == <<
    \* 0.0: sin = 0.0, cos = 1.0
    [ x   |-> Fin(0, <<>>, 0),
      sin |-> Fin(0, <<>>, 0),
      cos |-> Fin(0, <<0, 0, 0, 128>>, -52) ],
    \* math.pi / 2 = 1.5707963267948966: sin = 1.0, cos = 6.123233995736766e-17
    [ x   |-> Fin(0, <<11544, 10376, 2029, 201>>, -52),
      sin |-> Fin(0, <<0, 0, 0, 128>>, -52),
      cos |-> Fin(0, <<23559, 26152, 6296, 141>>, -106) ],
    \* -math.pi / 2: sin = -1.0, cos = 6.123233995736766e-17
    [ x   |-> Fin(1, <<11544, 10376, 2029, 201>>, -52),
      sin |-> Fin(1, <<0, 0, 0, 128>>, -52),
      cos |-> Fin(0, <<23559, 26152, 6296, 141>>, -106) ],
    \* math.pi / 4 = 0.7853981633974483: sin = 0.7071067811865475, cos = 0.7071067811865476
    [ x   |-> Fin(0, <<11544, 10376, 2029, 201>>, -53),
      sin |-> Fin(0, <<15308, 19710, 633, 181>>, -53),
      cos |-> Fin(0, <<15309, 19710, 633, 181>>, -53) ],
    \* math.pi = 3.141592653589793: sin = 1.2246467991473532e-16, cos = -1.0
    [ x   |-> Fin(0, <<11544, 10376, 2029, 201>>, -51),
      sin |-> Fin(0, <<23559, 26152, 6296, 141>>, -105),
      cos |-> Fin(1, <<0, 0, 0, 128>>, -52) ],
    \* 3.0: sin = 0.1411200080598672, cos = -0.9899924966004454
    [ x   |-> Fin(0, <<0, 0, 0, 192>>, -51),
      sin |-> Fin(0, <<21851, 23405, 16609, 144>>, -55),
      cos |-> Fin(1, <<26066, 32011, 14354, 253>>, -53) ],
    \* 2.5: sin = 0.5984721441039565, cos = -0.8011436155469337
    [ x   |-> Fin(0, <<0, 0, 0, 160>>, -51),
      sin |-> Fin(0, <<19121, 7071, 6844, 153>>, -53),
      cos |-> Fin(1, <<2941, 24331, 3039, 205>>, -53) ],
    \* -3.0: sin = -0.1411200080598672, cos = -0.9899924966004454
    [ x   |-> Fin(1, <<0, 0, 0, 192>>, -51),
      sin |-> Fin(1, <<21851, 23405, 16609, 144>>, -55),
      cos |-> Fin(1, <<26066, 32011, 14354, 253>>, -53) ],
    \* 0.5: sin = 0.479425538604203, cos = 0.8775825618903728
    [ x   |-> Fin(0, <<0, 0, 0, 128>>, -53),
      sin |-> Fin(0, <<1520, 26774, 15265, 245>>, -54),
      cos |-> Fin(0, <<32080, 3254, 21664, 224>>, -53) ],
    \* 1.0: sin = 0.8414709848078965, cos = 0.5403023058681398
    [ x   |-> Fin(0, <<0, 0, 0, 128>>, -52),
      sin |-> Fin(0, <<3310, 7698, 13650, 215>>, -53),
      cos |-> Fin(0, <<1676, 8042, 10400, 138>>, -53) ] >>

TrigRow(a) == CHOOSE i \in 1..Len(TrigTable) : TrigTable[i].x = a

MathSin(a) ==
    IF IsExc(a) \/ IsNaN(a) THEN a
    ELSE IF IsInf(a) THEN ValueError
    ELSE TrigTable[TrigRow(a)].sin

MathCos(a) ==
    IF IsExc(a) \/ IsNaN(a) THEN a
    ELSE IF IsInf(a) THEN ValueError
    ELSE TrigTable[TrigRow(a)].cos

(***************************************************************************)
(* The source text, as syntax trees.  An expression is a float literal,    *)
(* an int literal, a string literal, a name, a subscripted name, a binary  *)
(* operation, a call of a math function, or a tuple display.               *)
(***************************************************************************)
\* the float literal with the decimal digits `chunks` times 10^p
Float(chunks, p) == [t |-> "float", chunks |-> chunks, p |-> p]
IntLit(n) == [t |-> "int", n |-> n]
Str(v) == [t |-> "str", v |-> v]
Name(id) == [t |-> "name", id |-> id]
\* id[i], i counted from 0
Subscript(id, i) == [t |-> "subscript", id |-> id, i |-> i]
BinOp(op, l, r) == [t |-> "binop", op |-> op, l |-> l, r |-> r]
Add(l, r) == BinOp("+", l, r)
Sub(l, r) == BinOp("-", l, r)
Mul(l, r) == BinOp("*", l, r)
Div(l, r) == BinOp("/", l, r)
MathFn(fn, arg) == [t |-> "call", fn |-> fn, arg |-> arg]
Tuple(elems) == [t |-> "tuple", elems |-> elems]

\* target = expr at a source line; the target "return" is a return statement
Statement(line, target, expr) == [line |-> line, target |-> target, expr |-> expr]

\* the module-level assignments with E_SQR written as 0.0067
module_body_drifted == <<
    Statement(17, "VERSION", Str("1.0")),
    Statement(18, "GM", Float(<<39, 8600, 4418>>, 5)),
    Statement(19, "Re", IntLit(6378137)),
    Statement(20, "FLATTENING", Float(<<3352, 8106, 6475>>, -14)),
    Statement(21, "ECCENTRICITY", Float(<<818, 1919, 842, 6215>>, -16)),
    Statement(22, "E_SQR", Float(<<67>>, -4)),
    Statement(23, "W_IE", Float(<<729, 2115>>, -11)) >>

\* the module-level assignments
module_body == <<
    Statement(17, "VERSION", Str("1.0")),
    Statement(18, "GM", Float(<<39, 8600, 4418>>, 5)),               \* 3.986004418e14
    Statement(19, "Re", IntLit(6378137)),
    Statement(20, "FLATTENING", Float(<<3352, 8106, 6475>>, -14)),   \* 0.00335281066475
    Statement(21, "ECCENTRICITY", Float(<<818, 1919, 842, 6215>>, -16)),
                                                                     \* 0.0818191908426215
    Statement(22, "E_SQR", Float(<<6694, 3799, 9014>>, -14)),        \* 0.00669437999014
    Statement(23, "W_IE", Float(<<729, 2115>>, -11)) >>              \* 7292115e-11

\* line 49 with the factor (1.0 - E_SQR*sl_sqr) of the denominator left out
geo_param_rm_drifted ==
    Div(Mul(Name("Re"), Sub(IntLit(1), Name("E_SQR"))),
        MathFn("math.sqrt",
               Sub(Float(<<1>>, 0), Mul(Name("E_SQR"), Name("sl_sqr")))))

\* rm = (Re*(1 - E_SQR)) / (math.sqrt(1.0 - E_SQR*sl_sqr) * (1.0 - E_SQR*sl_sqr))
geo_param_rm ==
    Div(Mul(Name("Re"), Sub(IntLit(1), Name("E_SQR"))),
        Mul(MathFn("math.sqrt",
                   Sub(Float(<<1>>, 0), Mul(Name("E_SQR"), Name("sl_sqr")))),
            Sub(Float(<<1>>, 0), Mul(Name("E_SQR"), Name("sl_sqr")))))

\* rn = Re / (math.sqrt(1.0 - E_SQR*sl_sqr))
geo_param_rn ==
    Div(Name("Re"),
        MathFn("math.sqrt",
               Sub(Float(<<1>>, 0), Mul(Name("E_SQR"), Name("sl_sqr")))))

\* line 51 without the division by math.sqrt(1.0 - E_SQR*sl_sqr)
geo_param_g1_nosqrt ==
    Mul(Name("normal_gravity"),
        Add(IntLit(1), Mul(Name("k"), Name("sl_sqr"))))

\* g1 = normal_gravity * (1 + k*sl_sqr) / math.sqrt(1.0 - E_SQR*sl_sqr)
geo_param_g1 ==
    Div(Mul(Name("normal_gravity"),
            Add(IntLit(1), Mul(Name("k"), Name("sl_sqr")))),
        MathFn("math.sqrt",
               Sub(Float(<<1>>, 0), Mul(Name("E_SQR"), Name("sl_sqr")))))

\* line 52 with the first correction term not multiplied by h
geo_param_g_noh ==
    Mul(Name("g1"),
        Add(Sub(Float(<<1>>, 0),
                Mul(Div(Float(<<2>>, 0), Name("Re")),
                    Sub(Add(Add(Float(<<1>>, 0), Name("FLATTENING")),
                            Name("m")),
                        Mul(Mul(Float(<<2>>, 0), Name("FLATTENING")),
                            Name("sl_sqr"))))),
            Div(Div(Mul(Mul(Float(<<3>>, 0), Name("h")), Name("h")),
                    Name("Re")),
                Name("Re"))))

\* g = g1 * (1.0 - (2.0/Re) * (1.0 + FLATTENING + m - 2.0*FLATTENING*sl_sqr)*h
\*           + 3.0*h*h/Re/Re)
geo_param_g ==
    Mul(Name("g1"),
        Add(Sub(Float(<<1>>, 0),
                Mul(Mul(Div(Float(<<2>>, 0), Name("Re")),
                        Sub(Add(Add(Float(<<1>>, 0), Name("FLATTENING")),
                                Name("m")),
                            Mul(Mul(Float(<<2>>, 0), Name("FLATTENING")),
                                Name("sl_sqr")))),
                    Name("h"))),
            Div(Div(Mul(Mul(Float(<<3>>, 0), Name("h")), Name("h")),
                    Name("Re")),
                Name("Re"))))

geo_param_body == <<
    Statement(40, "normal_gravity", Float(<<978, 325, 3359>>, -10)),  \* 9.7803253359
    Statement(41, "k", Float(<<1931, 8526, 5241>>, -14)),         \* 0.00193185265241
    Statement(43, "m", Float(<<3449, 7865, 684>>, -14)),          \* 0.00344978650684
    Statement(45, "sl", MathFn("math.sin", Subscript("pos", 0))),
    Statement(46, "cl", MathFn("math.cos", Subscript("pos", 0))),
    Statement(47, "sl_sqr", Mul(Name("sl"), Name("sl"))),
    Statement(48, "h", Subscript("pos", 2)),
    Statement(49, "rm", geo_param_rm),
    Statement(50, "rn", geo_param_rn),
    Statement(51, "g1", geo_param_g1),
    Statement(52, "g", geo_param_g),
    Statement(53, "return",
              Tuple(<<Name("rm"), Name("rn"), Name("g"), Name("sl"), Name("cl"),
                      Name("W_IE")>>)) >>

\* line 66 drifted from line 49: sl where line 49 has sl_sqr in the last factor
earth_radius_rm_drifted ==
    Div(Mul(Name("Re"), Sub(IntLit(1), Name("E_SQR"))),
        Mul(MathFn("math.sqrt",
                   Sub(Float(<<1>>, 0), Mul(Name("E_SQR"), Name("sl_sqr")))),
            Sub(Float(<<1>>, 0), Mul(Name("E_SQR"), Name("sl")))))

\* rm = (Re*(1 - E_SQR)) / (math.sqrt(1.0 - E_SQR*sl_sqr) * (1.0 - E_SQR*sl_sqr))
earth_radius_rm ==
    Div(Mul(Name("Re"), Sub(IntLit(1), Name("E_SQR"))),
        Mul(MathFn("math.sqrt",
                   Sub(Float(<<1>>, 0), Mul(Name("E_SQR"), Name("sl_sqr")))),
            Sub(Float(<<1>>, 0), Mul(Name("E_SQR"), Name("sl_sqr")))))

\* rn = Re / (math.sqrt(1.0 - E_SQR*sl_sqr))
earth_radius_rn ==
    Div(Name("Re"),
        MathFn("math.sqrt",
               Sub(Float(<<1>>, 0), Mul(Name("E_SQR"), Name("sl_sqr")))))

earth_radius_body == <<
    Statement(64, "sl", MathFn("math.sin", Name("lat"))),
    Statement(65, "sl_sqr", Mul(Name("sl"), Name("sl"))),
    Statement(66, "rm", earth_radius_rm),
    Statement(67, "rn", earth_radius_rn),
    Statement(68, "return", Tuple(<<Name("rm"), Name("rn")>>)) >>

\* line 82 without the square root
lla2xyz_r_nosqrt ==
    Div(Name("Re"),
        Sub(Float(<<1>>, 0), Mul(Name("E_SQR"), Name("sl_sqr"))))

\* r = Re / math.sqrt(1.0 - E_SQR*sl_sqr)
lla2xyz_r ==
    Div(Name("Re"),
        MathFn("math.sqrt",
               Sub(Float(<<1>>, 0), Mul(Name("E_SQR"), Name("sl_sqr")))))

\* line 86 without the factor (1.0-E_SQR)
lla2xyz_z_nofactor ==
    Mul(Add(Name("r"), Subscript("lla", 2)), Name("sl"))

\* z = (r*(1.0-E_SQR) + lla[2]) * sl
lla2xyz_z ==
    Mul(Add(Mul(Name("r"), Sub(Float(<<1>>, 0), Name("E_SQR"))),
            Subscript("lla", 2)),
        Name("sl"))

lla2xyz_body == <<
    Statement(78, "sl", MathFn("math.sin", Subscript("lla", 0))),
    Statement(79, "cl", MathFn("math.cos", Subscript("lla", 0))),
    Statement(80, "sl_sqr", Mul(Name("sl"), Name("sl"))),
    Statement(82, "r", lla2xyz_r),
    Statement(83, "rho", Mul(Add(Name("r"), Subscript("lla", 2)), Name("cl"))),
    Statement(84, "x", Mul(Name("rho"), MathFn("math.cos", Subscript("lla", 1)))),
    Statement(85, "y", Mul(Name("rho"), MathFn("math.sin", Subscript("lla", 1)))),
    Statement(86, "z", lla2xyz_z),
    \* return np.array([x, y, z])
    Statement(88, "return", Tuple(<<Name("x"), Name("y"), Name("z")>>)) >>

Ops == {"geo_param", "earth_radius", "lla2xyz"}

Body(op) ==
    CASE op = "module" -> module_body
      [] op = "geo_param" -> geo_param_body
      [] op = "earth_radius" -> earth_radius_body
      [] op = "lla2xyz" -> lla2xyz_body

\* the name of a function's parameter
Param(op) ==
    CASE op = "geo_param" -> "pos"
      [] op = "earth_radius" -> "lat"
      [] op = "lla2xyz" -> "lla"

(***************************************************************************)
(* Evaluation.  A frame holds the local names of a call, the module's      *)
(* globals as the call sees and leaves them, the exception that ended it   *)
(* ("none" while it runs) and the value of its return statement.  A Python *)
(* int is [c |-> "int", n |-> n] and becomes a float when it meets one in  *)
(* an operation.                                                           *)
(***************************************************************************)
NoNames == [id \in {} |-> NaN]

NewFrame(names, G) == [names |-> names, globals |-> G, ret |-> <<>>, raised |-> "none"]

IntValue(n) == [c |-> "int", n |-> n]

Coerce(v) ==
    << v,
       IF v.c = "int" THEN FromInt(v.n) ELSE v
    >>[2]

\* a local name, else a global one
Lookup(id, f) == IF id \in DOMAIN f.names THEN f.names[id] ELSE f.globals[id]

Arith(op, a, b) ==
    << a, b,
       CASE op = "+" -> FAdd(a, b)
         [] op = "-" -> FSub(a, b)
         [] op = "*" -> FMul(a, b)
         [] op = "/" -> FDiv(a, b)
    >>[3]

MathCall(fn, a) ==
    << a,
       CASE fn = "math.sin" -> MathSin(a)
         [] fn = "math.cos" -> MathCos(a)
         [] fn = "math.sqrt" -> MathSqrt(a)
    >>[2]

RECURSIVE Eval(_, _)
Eval(e, f) ==
    CASE e.t = "float" -> Lit(e.chunks, e.p)
      [] e.t = "int" -> IntValue(e.n)
      [] e.t = "str" -> [c |-> "str", v |-> e.v]
      [] e.t = "name" -> Lookup(e.id, f)
      [] e.t = "subscript" -> Lookup(e.id, f)[e.i + 1]
      [] e.t = "binop" -> Arith(e.op, Coerce(Eval(e.l, f)), Coerce(Eval(e.r, f)))
      [] e.t = "call" -> MathCall(e.fn, Coerce(Eval(e.arg, f)))
      [] e.t = "tuple" ->
            SubSeq([i \in 1..Len(e.elems) |-> Eval(e.elems[i], f)],
                   1, Len(e.elems))

\* Store as it would be if the bodies declared their names global
Store_global(st, f, v) ==
    << v,
       IF st.target = "return" THEN [f EXCEPT !.ret = v]
       ELSE IF IsExc(v) THEN [f EXCEPT !.raised = v.c]
       ELSE [f EXCEPT !.names = (st.target :> v) @@ f.names,
                      !.globals = (st.target :> v) @@ f.globals]
    >>[2]

\* the statement st, whose expression has the value v (or has raised): no
\* body declares a name global, so an assignment binds a name of the frame
Store(st, f, v) ==
    << v,
       IF st.target = "return" THEN [f EXCEPT !.ret = v]
       ELSE IF IsExc(v) THEN [f EXCEPT !.raised = v.c]
       ELSE [f EXCEPT !.names = (st.target :> v) @@ f.names]
    >>[2]

Exec(st, f) == Store(st, f, Eval(st.expr, f))

\* the statements i.. of a body, one after the other, until one raises
RECURSIVE RunFrom(_, _, _)
RunFrom(body, i, f) ==
    IF i > Len(body) \/ f.raised # "none" THEN f
    ELSE RunFrom(body, i + 1, Exec(body[i], f))

\* the module's globals once it is imported: at module level the names a
\* statement binds are the globals
ModuleGlobals == RunFrom(module_body, 1, NewFrame(NoNames, NoNames)).names

\* what the caller gets from a call that ended with frame f
Outcome(f) ==
    IF f.raised = "none" THEN [raised |-> "none", value |-> f.ret]
    ELSE [raised |-> f.raised, value |-> <<>>]

\* a whole call of op with the argument arg: the frame it ends with
Run(op, G, arg) == RunFrom(Body(op), 1, NewFrame(Param(op) :> arg, G))

Call(op, G, arg) == Outcome(Run(op, G, arg))

\* the three functions: the frame a call ends with
geo_param(G, pos) == Run("geo_param", G, pos)
earth_radius(G, lat) == Run("earth_radius", G, lat)
lla2xyz(G, lla) == Run("lla2xyz", G, lla)

(***************************************************************************)
(* The caller.  The module keeps no state between calls; a caller builds a *)
(* vector [lat, lon, alt], hands it to the functions in any order, and     *)
(* then builds another one.  The values a component is drawn from cover    *)
(* the equator, the poles, a generic latitude, a latitude with a negative  *)
(* cosine, and the non-finite doubles.                                     *)
(***************************************************************************)
Huge == Fin(0, <<0, 0, 0, 128>>, 600)          \* 2.0 ** 652
Thousand == Fin(0, <<0, 0, 0, 250>>, -43)      \* 1000.0

\* the tabulated angles: 0, pi/2, -pi/2, pi/4, pi, 3.0, 2.5, -3.0, ...
Angles == [i \in 1..Len(TrigTable) |-> TrigTable[i].x]

LatValues == SubSeq(Angles, 1, 5) \o <<NaN, PInf, NInf>> \o SubSeq(Angles, 6, 6)
LonValues == <<Angles[1], Angles[8], PInf, NaN, Angles[7]>>
AltValues == <<Zero(0), Thousand, Huge, PInf, NaN, NInf>>

NLat == 7
NLon == 3
NAlt == 4

NotCalled == [raised |-> "notcalled", value |-> <<>>]
NoCall == [op |-> "none", out |-> NotCalled]

\* the vectors of the calls that run concurrently, one per thread
ConcInputs == <<
    <<Angles[4], Angles[7], Thousand>>,
    <<Angles[2], PInf, Zero(0)>>,
    <<Angles[10], Angles[1], Huge>> >>

NThreads == 2

\* a thread that is in no call
Idle == [op |-> "none", pc |-> 0, names |-> NoNames, ret |-> <<>>, raised |-> "none"]

VARIABLES
    globals,    \* the module-level names GM, Re, FLATTENING, ... (lines 17-23)
    pos,        \* the vector the caller passes
    given,      \* the vector as the caller built it
    ret,        \* per function, what its call on pos returned or raised
    again,      \* a further call of one function on pos, after the others
    threads     \* per thread, the call it is in: function, next statement, frame

vars == <<globals, pos, given, ret, again, threads>>

Init ==
    /\ globals = ModuleGlobals
    /\ pos = <<Zero(0), Zero(0), Zero(0)>>
    /\ given = pos
    /\ ret = [op \in Ops |-> NotCalled]
    /\ again = NoCall
    /\ threads = [t \in 1..NThreads |-> Idle]

NewInput ==
    \E i \in 1..NLat, j \in 1..NLon, a \in 1..NAlt :
        /\ pos' = <<LatValues[i], LonValues[j], AltValues[a]>>
        /\ given' = pos'
        /\ ret' = [op \in Ops |-> NotCalled]
        /\ again' = NoCall
        /\ UNCHANGED <<globals, threads>>

\* what the caller passes to op: earth_radius takes the latitude alone
Arg(op, pos_) == IF op = "earth_radius" THEN pos_[1] ELSE pos_

\* the caller's vector after a call of op that ended with frame f: the
\* frame's parameter is the caller's object, except for earth_radius, which
\* got a float
Passed(op, f, pos_) == IF op = "earth_radius" THEN pos_ ELSE f.names[Param(op)]

\* rm, rn, g, sl, cl, w_ie = geo_param(pos)
CallGeoParam ==
    /\ ret["geo_param"] = NotCalled
    /\ \E f \in {geo_param(globals, pos)} :
          /\ ret' = [ret EXCEPT !["geo_param"] = Outcome(f)]
          /\ globals' = f.globals
          /\ pos' = Passed("geo_param", f, pos)
    /\ UNCHANGED <<given, again, threads>>

\* rm, rn = earth_radius(pos[0])
CallEarthRadius ==
    /\ ret["earth_radius"] = NotCalled
    /\ \E f \in {earth_radius(globals, pos[1])} :
          /\ ret' = [ret EXCEPT !["earth_radius"] = Outcome(f)]
          /\ globals' = f.globals
          /\ pos' = Passed("earth_radius", f, pos)
    /\ UNCHANGED <<given, again, threads>>

\* xyz = lla2xyz(pos)
CallLla2xyz ==
    /\ ret["lla2xyz"] = NotCalled
    /\ \E f \in {lla2xyz(globals, pos)} :
          /\ ret' = [ret EXCEPT !["lla2xyz"] = Outcome(f)]
          /\ globals' = f.globals
          /\ pos' = Passed("lla2xyz", f, pos)
    /\ UNCHANGED <<given, again, threads>>

\* one of the functions is called once more on the same vector
CallAgain ==
    /\ again = NoCall
    /\ \A op \in Ops : ret[op] # NotCalled
    /\ \E op \in Ops :
          \E f \in {Run(op, globals, Arg(op, pos))} :
              /\ again' = [op |-> op, out |-> Outcome(f)]
              /\ globals' = f.globals
              /\ pos' = Passed(op, f, pos)
    /\ UNCHANGED <<given, ret, threads>>

Next ==
    \/ NewInput
    \/ CallGeoParam
    \/ CallEarthRadius
    \/ CallLla2xyz
    \/ CallAgain

Spec == Init /\ [][Next]_vars

(***************************************************************************)
(* Concurrent callers.  Each thread calls one function on its own vector;  *)
(* a step of a thread executes one statement of the body in the thread's   *)
(* own frame, against the globals all threads share, and steps of          *)
(* different threads interleave in any order.                              *)
(***************************************************************************)
\* the frame of thread t if the threads kept their names in one namespace
ThreadFrame_shared(t) ==
    [names |-> threads[1].names @@ threads[t].names, globals |-> globals,
     ret |-> threads[t].ret, raised |-> threads[t].raised]

\* the frame thread t executes in: its own names, the shared globals
ThreadFrame(t) ==
    [names |-> threads[t].names, globals |-> globals,
     ret |-> threads[t].ret, raised |-> threads[t].raised]

\* thread t's call has returned or raised
Finished(t) ==
    /\ threads[t].op # "none"
    /\ \/ threads[t].raised # "none"
       \/ threads[t].pc > Len(Body(threads[t].op))

\* thread t enters a call of op on its vector
Begin(t) ==
    /\ threads[t] = Idle
    /\ \E op \in Ops :
          threads' = [threads EXCEPT ![t] =
                         [op |-> op, pc |-> 1,
                          names |-> Param(op) :> Arg(op, ConcInputs[t]),
                          ret |-> <<>>, raised |-> "none"]]
    /\ UNCHANGED <<globals, pos, given, ret, again>>

\* thread t executes the next statement of its call
StepThread(t) ==
    /\ threads[t].op # "none"
    /\ ~Finished(t)
    /\ \E f \in {Exec(Body(threads[t].op)[threads[t].pc], ThreadFrame(t))} :
          /\ threads' = [threads EXCEPT ![t] =
                            [op |-> @.op, pc |-> @.pc + 1, names |-> f.names,
                             ret |-> f.ret, raised |-> f.raised]]
          /\ globals' = f.globals
    /\ UNCHANGED <<pos, given, ret, again>>

\* thread t's caller has taken the result; the thread may call again
Collect(t) ==
    /\ Finished(t)
    /\ threads' = [threads EXCEPT ![t] = Idle]
    /\ UNCHANGED <<globals, pos, given, ret, again>>

NextConc ==
    \E t \in 1..NThreads :
        \/ Begin(t)
        \/ StepThread(t)
        \/ Collect(t)

SpecConc == Init /\ [][NextConc]_vars

(***************************************************************************)
(* Properties of the calls a caller makes one after the other (Spec).      *)
(***************************************************************************)
Called(op) == ret[op] # NotCalled
Returned(op) == ret[op].raised = "none"

\* |a - b| <= tol
Within(a, b, tol) == FLe(FAbs(FSub(a, b)), tol)

HalfPi == Angles[2]
PiOver4 == Angles[4]
One == FromInt(1)
Micro == Lit(<<1>>, -6)                          \* 1e-6

\* the numbers the properties name
G0 == Lit(<<978, 325, 3359>>, -10)               \* 9.7803253359
GravityK == Lit(<<1931, 8526, 5241>>, -14)       \* 0.00193185265241
PolarGravity == Lit(<<983, 2184, 9378>>, -10)    \* 9.8321849378
ReValue == FromInt(6378137)
ESqrValue == Lit(<<6694, 3799, 9014>>, -14)      \* 0.00669437999014

\* C1: for a latitude in [-pi/2, pi/2], whatever longitude and altitude the
\* vector holds, earth_radius(lat) returns the pair (rm, rn) that
\* geo_param(pos) returns as its first two components.
C1_RadiiAgree ==
    (/\ FLe(FAbs(pos[1]), HalfPi)
     /\ Called("geo_param")
     /\ Called("earth_radius"))
    => /\ Returned("geo_param")
       /\ Returned("earth_radius")
       /\ ret["earth_radius"].value = SubSeq(ret["geo_param"].value, 1, 2)

\* both were called at lat = pi/4, lon = -3.0, alt = 1000 and agree
C1_Witness ==
    /\ pos = <<PiOver4, Angles[8], Thousand>>
    /\ Returned("geo_param")
    /\ Returned("earth_radius")
    /\ ret["earth_radius"].value = SubSeq(ret["geo_param"].value, 1, 2)

\* C9: at lat = 0 and alt = 0, whatever the longitude, geo_param returns
\* g = 9.7803253359 exactly.
C9_EquatorGravity ==
    (pos[1] = Zero(0) /\ pos[3] = Zero(0) /\ Called("geo_param"))
    => /\ Returned("geo_param")
       /\ ret["geo_param"].value[3] = G0

\* geo_param has returned g0 at lat = 0, lon = -3.0, alt = 0
C9_Witness ==
    /\ pos = <<Zero(0), Angles[8], Zero(0)>>
    /\ Returned("geo_param")
    /\ ret["geo_param"].value[3] = G0

\* Re / sqrt(1 - e^2)
PolarRadius == FDiv(ReValue, MathSqrt(FSub(One, ESqrValue)))

\* C10: at lat = pi/2 the radii that geo_param and earth_radius return
\* coincide: rm = rn = Re/sqrt(1 - e^2).
C10_PolarRadii ==
    pos[1] = HalfPi
    => \A op \in {"geo_param", "earth_radius"} :
          Called(op) => /\ Returned(op)
                        /\ ret[op].value[1] = ret[op].value[2]
                        /\ ret[op].value[2] = PolarRadius

\* both have returned the polar radius twice at lat = pi/2
C10_Witness ==
    /\ pos[1] = HalfPi
    /\ \A op \in {"geo_param", "earth_radius"} :
          /\ Returned(op)
          /\ ret[op].value[1] = PolarRadius
          /\ ret[op].value[2] = PolarRadius

\* C3, as amended: at lat = pi/2 and alt = 0 geo_param returns
\* g = g0*(1 + k)/sqrt(1 - e^2), which is 9.8321849378 within 1e-6.
C3_PolarGravity ==
    (pos[1] = HalfPi /\ pos[3] = Zero(0) /\ Called("geo_param"))
    => /\ Returned("geo_param")
       /\ Within(ret["geo_param"].value[3],
                 FDiv(FMul(G0, FAdd(One, GravityK)), MathSqrt(FSub(One, ESqrValue))),
                 Micro)
       /\ Within(ret["geo_param"].value[3], PolarGravity, Micro)

\* geo_param has returned a g within 1e-6 of 9.8321849378 at the pole
C3_Witness ==
    /\ pos[1] = HalfPi
    /\ pos[3] = Zero(0)
    /\ Returned("geo_param")
    /\ Within(ret["geo_param"].value[3], PolarGravity, Micro)

\* C3, as stated: at lat = pi/2 and alt = 0 geo_param returns g0*(1 + k)
\* within 1e-6.
C3_Original ==
    (pos[1] = HalfPi /\ pos[3] = Zero(0) /\ Called("geo_param"))
    => /\ Returned("geo_param")
       /\ Within(ret["geo_param"].value[3], FMul(G0, FAdd(One, GravityK)), Micro)

\* Re*(1 - e^2)/sqrt(1 - e^2), the polar semi-axis 6356752.3142...
PolarAxis == FDiv(FMul(ReValue, FSub(One, ESqrValue)), MathSqrt(FSub(One, ESqrValue)))

\* C2, as amended: lla2xyz((pi/2, 0, 0)) returns, within 1e-6, x = 0, y = 0
\* and z = Re*(1 - e^2)/sqrt(1 - e^2).
C2_Pole ==
    (pos = <<HalfPi, Zero(0), Zero(0)>> /\ Called("lla2xyz"))
    => /\ Returned("lla2xyz")
       /\ Within(ret["lla2xyz"].value[1], Zero(0), Micro)
       /\ Within(ret["lla2xyz"].value[2], Zero(0), Micro)
       /\ Within(ret["lla2xyz"].value[3], PolarAxis, Micro)

\* lla2xyz has returned the polar semi-axis as z at (pi/2, 0, 0)
C2_Witness ==
    /\ pos = <<HalfPi, Zero(0), Zero(0)>>
    /\ Returned("lla2xyz")
    /\ Within(ret["lla2xyz"].value[3], PolarAxis, Micro)

\* C2, as stated: lla2xyz((pi/2, 0, 0)) returns, within 1e-6, x = 0, y = 0
\* and z = Re*(1 - e^2).
C2_Original ==
    (pos = <<HalfPi, Zero(0), Zero(0)>> /\ Called("lla2xyz"))
    => /\ Returned("lla2xyz")
       /\ Within(ret["lla2xyz"].value[1], Zero(0), Micro)
       /\ Within(ret["lla2xyz"].value[2], Zero(0), Micro)
       /\ Within(ret["lla2xyz"].value[3], FMul(ReValue, FSub(One, ESqrValue)), Micro)

\* sqrt(x^2 + y^2) / cos(lat) for the vector lla2xyz returned
Projection ==
    FDiv(MathSqrt(FAdd(FMul(ret["lla2xyz"].value[1], ret["lla2xyz"].value[1]),
                       FMul(ret["lla2xyz"].value[2], ret["lla2xyz"].value[2]))),
         MathCos(pos[1]))

\* lla2xyz and earth_radius have both returned for a vector with a finite
\* longitude and alt = 0
SurfacePoint ==
    /\ IsFin(pos[2])
    /\ pos[3] = Zero(0)
    /\ Called("lla2xyz") /\ Returned("lla2xyz")
    /\ Called("earth_radius") /\ Returned("earth_radius")

\* C8, as amended: for a finite longitude, alt = 0 and cos(lat) > 0,
\* sqrt(x^2 + y^2)/cos(lat) of lla2xyz's result is rn of earth_radius(lat)
\* within 1e-6; for cos(lat) < 0 it is -rn within 1e-6.
C8_NormalRadius ==
    (SurfacePoint /\ IsFin(pos[1]) /\ ~IsZero(MathCos(pos[1])))
    => IF MathCos(pos[1]).s = 0
       THEN Within(Projection, ret["earth_radius"].value[2], Micro)
       ELSE Within(Projection, FNeg(ret["earth_radius"].value[2]), Micro)

\* both have returned at lat = pi/4, lon = -3.0, alt = 0 and the quotient is
\* rn within 1e-6
C8_Witness ==
    /\ SurfacePoint
    /\ pos[1] = PiOver4
    /\ pos[2] = Angles[8]
    /\ Within(Projection, ret["earth_radius"].value[2], Micro)

\* C8, as stated, for finite longitudes and read with a tolerance of 1e-6:
\* for alt = 0 and cos(lat) # 0, sqrt(x^2 + y^2)/cos(lat) of lla2xyz's
\* result is rn of earth_radius(lat).
C8_Original ==
    (SurfacePoint /\ IsFin(pos[1]) /\ ~IsZero(MathCos(pos[1])))
    => Within(Projection, ret["earth_radius"].value[2], Micro)

\* C4: no call of geo_param, earth_radius or lla2xyz raises: whatever the
\* vector holds, NaN and the infinities included, a call that was made has
\* returned a value.
C4_NeverRaises == \A op \in Ops : Called(op) => Returned(op)

\* C5: the module's names (GM, Re, FLATTENING, ECCENTRICITY, E_SQR and W_IE
\* among them) are bound as the import bound them and the caller's vector is
\* as the caller built it, whatever calls were made; and a function called
\* again on the same vector, after the other functions were called, returns
\* or raises what it did the first time.
C5_Pure ==
    /\ globals = ModuleGlobals
    /\ pos = given
    /\ again.op # "none" => again.out = ret[again.op]

\* geo_param was called a second time, after earth_radius and lla2xyz, on
\* (pi/4, -3.0, 1000) and has returned
C5_Witness ==
    /\ given = <<PiOver4, Angles[8], Thousand>>
    /\ again.op = "geo_param"
    /\ again.out.raised = "none"
    /\ Len(again.out.value) = 6

Hundredth == Lit(<<1>>, -2)
\* 1e-14, a unit of the last decimal place E_SQR is written with
ESqrUnit == FMul(FMul(Micro, Micro), Hundredth)

\* 2*FLATTENING - FLATTENING^2 and ECCENTRICITY^2 of the module's values
FromFlattening ==
    FSub(FMul(FromInt(2), globals["FLATTENING"]),
         FMul(globals["FLATTENING"], globals["FLATTENING"]))
FromEccentricity == FMul(globals["ECCENTRICITY"], globals["ECCENTRICITY"])

Alone ==
    [t \in 1..NThreads |->
        [op \in Ops |-> Call(op, ModuleGlobals, Arg(op, ConcInputs[t]))]]

\* C6: however the statements of concurrent calls interleave, a call that
\* has finished has returned or raised what the same call returns or raises
\* when it runs alone.
C6_Isolated ==
    \A t \in 1..NThreads :
        Finished(t) => Outcome(threads[t]) = Alone[t][threads[t].op]

\* two calls of geo_param on different vectors have both finished, having
\* run at the same time
C6_Witness ==
    /\ \A t \in 1..2 : Finished(t) /\ threads[t].op = "geo_param"
    /\ Outcome(threads[1]) # Outcome(threads[2])

====
